---- MODULE Spec2Model ----
(***************************************************************************)
(* BaseHandler of ts/torch_handler/base_handler.py: the fields set by      *)
(* __init__, the initialize(ctx) protocol (device resolution, the optional *)
(* intel_pytorch_extension probe, artifact check, model-format branch,     *)
(* label mapping) and the three abstract pipeline stages.                  *)
(*                                                                         *)
(* Python's None is modelled by a value of the same shape as the present   *)
(* values (NoModel, NoDevice, NoMapping, NoManifest), an exception by the  *)
(* "error" field of the outcome of a call.                                 *)
(*                                                                         *)
(* The files under model_dir are what the packaging puts there: an         *)
(* artifact that is on disk deserializes, a model file that is on disk     *)
(* imports, and index_to_name.json, when on disk, is a JSON object.        *)
(***************************************************************************)
EXTENDS Integers, Sequences, FiniteSets, TLC

\* Largest gpu_id a context carries, and the most classes a model file declares.
MaxGpuId == 1
MaxClasses == 2

VARIABLES
    self,      \* the handler: model, mapping, device, initialized, manifest
    process,   \* process-wide state the probe writes: KMP_AFFINITY, mixed precision
    host,      \* what the host offers: cuda, intel_pytorch_extension, the env override
    last,      \* the last call on the handler: its inputs, the state before, its outcome
    failed     \* some initialize call on this instance has raised

vars == <<self, process, host, last, failed>>

----------------------------------------------------------------------------
\* Values

NoDevice == [type |-> "None", has_index |-> FALSE, index |-> 0]
CpuDevice == [type |-> "cpu", has_index |-> FALSE, index |-> 0]
IpexDevice == [type |-> "ipex.DEVICE", has_index |-> FALSE, index |-> 0]
CudaDevice(i) == [type |-> "cuda", has_index |-> TRUE, index |-> i]

NoModel ==
    [loaded |-> FALSE, kind |-> "None", device |-> NoDevice,
     training |-> FALSE, state_dict |-> FALSE]

NoMapping == [present |-> FALSE, dict |-> {}]

NoManifest == [present |-> FALSE, serializedFile |-> "", has_modelFile |-> FALSE, modelFile |-> ""]

NoGpuId == [has |-> FALSE, val |-> 0]
GpuIds == {NoGpuId} \cup {[has |-> TRUE, val |-> i] : i \in 0..MaxGpuId}

Manifests ==
    {[present |-> TRUE, serializedFile |-> "model.pt", has_modelFile |-> FALSE, modelFile |-> ""],
     [present |-> TRUE, serializedFile |-> "model.pt", has_modelFile |-> TRUE, modelFile |-> "model.py"]}

\* ctx: the manifest and system_properties ("model_dir", "gpu_id").
Contexts == [manifest : Manifests, model_dir : {"/m"}, gpu_id : GpuIds]

ClassNames == [i \in 1..(MaxClasses + 1) |-> <<"Net", i>>]
ClassLists == {SubSeq(ClassNames, 1, n) : n \in 0..MaxClasses}

\* index_to_name.json: absent, or a JSON object given by its members in order.
NoFile == [exists |-> FALSE, members |-> <<>>]
MappingFiles ==
    {NoFile,
     [exists |-> TRUE, members |-> << <<"0", "cat">>, <<"1", "dog">> >>],
     [exists |-> TRUE, members |-> << <<"0", "dog">>, <<"0", "bird">> >>]}

\* The "per core" values of lscpu's output: no such line, 1, 2, or not a number.
PerCoreOutputs == {<<>>, <<"1">>, <<"2">>, <<"x">>}

\* What the file system, the libraries and lscpu answer during one call.
Answers ==
    [artifact_is_file : BOOLEAN,
     model_def_is_file : BOOLEAN,
     classes : ClassLists,
     mapping_file : MappingFiles,
     amp_ok : BOOLEAN,
     per_core : PerCoreOutputs]

DefaultAnswers ==
    [artifact_is_file |-> FALSE, model_def_is_file |-> FALSE, classes |-> <<>>,
     mapping_file |-> NoFile,
     amp_ok |-> TRUE, per_core |-> <<>>]

DefaultContext ==
    [manifest |-> CHOOSE m \in Manifests : ~m.has_modelFile, model_dir |-> "/m", gpu_id |-> NoGpuId]

Hosts == [cuda : BOOLEAN, ipex : BOOLEAN, disable_mixed_precision : BOOLEAN]

----------------------------------------------------------------------------
\* Library functions, by what they do

\* json.load of an object: a dict, the last member of a key winning.
JsonLoad(members) ==
    {<<members[i][1], members[i][2]>> : i \in
        {j \in DOMAIN members : \A k \in DOMAIN members : k > j => members[k][1] # members[j][1]}}

\* int(s) of a "per core" value: raises on text that is no number.
IntOf(s) ==
    IF s = "1" THEN [raised |-> FALSE, val |-> 1]
    ELSE IF s = "2" THEN [raised |-> FALSE, val |-> 2]
    ELSE [raised |-> TRUE, val |-> 0]

\* torch.device(text): "cpu", "cuda:<n>"; "cuda:None" is an invalid device string.
TorchDevice(text) ==
    IF ~text.qualified THEN
        [raised |-> FALSE, device |-> [type |-> text.type, has_index |-> FALSE, index |-> 0]]
    ELSE IF text.index.has THEN
        [raised |-> FALSE, device |-> [type |-> text.type, has_index |-> TRUE, index |-> text.index.val]]
    ELSE [raised |-> TRUE, device |-> NoDevice]

\* Where torch puts what it loads with map_location 'cuda' or 'cpu': 'cuda'
\* carries no index and means the current CUDA device.
CurrentCudaDevice == 0
LoadLocation(map_location) ==
    IF map_location = "cuda" THEN CudaDevice(CurrentCudaDevice) ELSE CpuDevice

\* os.path.isfile(os.path.join(model_dir, model_file)): with no modelFile the
\* joined path is model_dir itself, a directory.
ModelDefIsFile(manifest, fs) ==
    IF manifest.has_modelFile THEN fs.model_def_is_file ELSE FALSE

----------------------------------------------------------------------------
\* initialize(ctx), step by step

\* map_location = 'cuda' if torch.cuda.is_available() else 'cpu'
MapLocation(h) == IF h.cuda THEN "cuda" ELSE "cpu"

\* The text handed to torch.device: map_location + ":" + str(gpu_id) with an
\* accelerator (str(None) when gpu_id is absent), map_location without.
DeviceText(h, ctx) ==
    IF h.cuda
    THEN [type |-> MapLocation(h), qualified |-> TRUE, index |-> ctx.gpu_id]
    ELSE [type |-> MapLocation(h), qualified |-> FALSE, index |-> NoGpuId]

ResolveDevice(h, ctx) == TorchDevice(DeviceText(h, ctx))

AffinityHT == "granularity=fine,verbose,compact,1,0"
AffinityNoHT == "granularity=fine,verbose,compact"

\* The try/except block of the cpu path. The device is switched right after the
\* import; whatever raises later is swallowed with the switch already made.
VendorProbe(device, proc, h, fs) ==
    IF ~h.ipex THEN [device |-> device, process |-> proc]
    ELSE IF ~h.disable_mixed_precision /\ ~fs.amp_ok
    THEN [device |-> IpexDevice, process |-> proc]
    ELSE
        LET p1 == IF h.disable_mixed_precision THEN proc
                  ELSE [proc EXCEPT !.auto_mix_precision = TRUE]
            per_core == fs.per_core
        IN  IF Len(per_core) > 0
            THEN LET n == IntOf(per_core[1])
                 IN  IF n.raised THEN [device |-> IpexDevice, process |-> p1]
                     ELSE IF n.val = 1
                     THEN [device |-> IpexDevice,
                           process |-> [p1 EXCEPT !.KMP_AFFINITY = AffinityNoHT]]
                     ELSE [device |-> IpexDevice,
                           process |-> [p1 EXCEPT !.KMP_AFFINITY = AffinityHT]]
            ELSE [device |-> IpexDevice,
                  process |-> [p1 EXCEPT !.KMP_AFFINITY = AffinityHT]]

\* LoadModel with the handle cleared on entry to the model-definition branch,
\* before the class count is looked at.
LoadModelClearsFirst(model, map_location, manifest, fs) ==
    IF ModelDefIsFile(manifest, fs)
    THEN
        IF Len(fs.classes) # 1
        THEN [model |-> NoModel, error |-> "AmbiguousModelDefinition", error_arg |-> fs.classes,
              branch |-> "model_def", load_device |-> NoDevice]
        ELSE [model |-> [loaded |-> TRUE, kind |-> "eager", device |-> CpuDevice,
                         training |-> TRUE, state_dict |-> TRUE],
              error |-> "none", error_arg |-> <<>>,
              branch |-> "model_def", load_device |-> LoadLocation(map_location)]
    ELSE [model |-> [loaded |-> TRUE, kind |-> "torchscript",
                     device |-> LoadLocation(map_location),
                     training |-> TRUE, state_dict |-> TRUE],
          error |-> "none", error_arg |-> <<>>,
          branch |-> "self_contained", load_device |-> LoadLocation(map_location)]

\* The model-format branch: what self.model is after it, and what it raised.
\* The eager model is built on the cpu in training mode and takes the state
\* dict that torch.load put at map_location; the torchscript model is put at
\* map_location by torch.jit.load.
LoadModel(model, map_location, manifest, fs) ==
    IF ModelDefIsFile(manifest, fs)
    THEN
        IF Len(fs.classes) # 1
        THEN [model |-> model, error |-> "AmbiguousModelDefinition", error_arg |-> fs.classes,
              branch |-> "model_def", load_device |-> NoDevice]
        ELSE [model |-> [loaded |-> TRUE, kind |-> "eager", device |-> CpuDevice,
                         training |-> TRUE, state_dict |-> TRUE],
              error |-> "none", error_arg |-> <<>>,
              branch |-> "model_def", load_device |-> LoadLocation(map_location)]
    ELSE [model |-> [loaded |-> TRUE, kind |-> "torchscript",
                     device |-> LoadLocation(map_location),
                     training |-> TRUE, state_dict |-> TRUE],
          error |-> "none", error_arg |-> <<>>,
          branch |-> "self_contained", load_device |-> LoadLocation(map_location)]

\* self.model.to(self.device); self.model.eval()
PlaceModel(model, device) == [model EXCEPT !.device = device, !.training = FALSE]

\* LoadMapping without the isfile test: opening the missing file raises.
LoadMappingOpensBlindly(mapping, fs) ==
    IF fs.mapping_file.exists
    THEN [mapping |-> [present |-> TRUE, dict |-> JsonLoad(fs.mapping_file.members)],
          error |-> "none", warning |-> FALSE]
    ELSE [mapping |-> mapping, error |-> "FileNotFoundError", warning |-> FALSE]

\* The label mapping: parsed when the file is there, left alone with a warning
\* when it is not.
LoadMapping(mapping, fs) ==
    IF fs.mapping_file.exists
    THEN [mapping |-> [present |-> TRUE, dict |-> JsonLoad(fs.mapping_file.members)],
          error |-> "none", warning |-> FALSE]
    ELSE [mapping |-> mapping, error |-> "none", warning |-> TRUE]

Outcome(s, proc, error, error_arg, branch, load_device, warning) ==
    [self |-> s, process |-> proc, error |-> error, error_arg |-> error_arg,
     branch |-> branch, load_device |-> load_device, warning |-> warning]

\* The whole of initialize: the handler and the process after the call, and how
\* the call ended.
initialize(s, proc, h, ctx, fs) ==
    LET s1 == [s EXCEPT !.manifest = ctx.manifest]
        map_location == MapLocation(h)
        dev == ResolveDevice(h, ctx)
    IN  IF dev.raised
        THEN Outcome(s1, proc, "InvalidDevice", <<>>, "none", NoDevice, FALSE)
        ELSE
        LET probe == IF map_location = "cpu"
                     THEN VendorProbe(dev.device, proc, h, fs)
                     ELSE [device |-> dev.device, process |-> proc]
            s2 == [s1 EXCEPT !.device = probe.device]
            p2 == probe.process
        IN  IF ~fs.artifact_is_file
            THEN Outcome(s2, p2, "MissingArtifact", <<>>, "none", NoDevice, FALSE)
            ELSE
            LET ld == LoadModel(s2.model, map_location, s2.manifest, fs)
                s3 == [s2 EXCEPT !.model = ld.model]
            IN  IF ld.error # "none"
                THEN Outcome(s3, p2, ld.error, ld.error_arg, ld.branch, ld.load_device, FALSE)
                ELSE
                LET s4 == [s3 EXCEPT !.model = PlaceModel(s3.model, s3.device)]
                    mp == LoadMapping(s4.mapping, fs)
                    s5 == [s4 EXCEPT !.mapping = mp.mapping]
                IN  IF mp.error # "none"
                    THEN Outcome(s5, p2, mp.error, <<>>, ld.branch, ld.load_device, mp.warning)
                    ELSE Outcome([s5 EXCEPT !.initialized = TRUE], p2, "none", <<>>,
                                 ld.branch, ld.load_device, mp.warning)

\* The inputs of a call. What is on disk under model_dir is a fact of the
\* context, whether or not the call gets to look at it; what lies behind a
\* missing artifact, and the answer of a call that is never made, is
\* held at its default, so that the same call is not enumerated once per value
\* of an input that cannot matter.
Reads(h, ctx, fs) ==
    LET dev == ResolveDevice(h, ctx)
        probing == ~dev.raised /\ ~h.cuda /\ h.ipex
        amp_called == probing /\ ~h.disable_mixed_precision
        lscpu_called == probing /\ (amp_called => fs.amp_ok)
        on_disk == fs.artifact_is_file
        in_def == on_disk /\ ModelDefIsFile(ctx.manifest, fs)
        loading == ~dev.raised /\ on_disk /\ (in_def => Len(fs.classes) = 1)
    IN  /\ ~h.cuda => ctx.gpu_id = DefaultContext.gpu_id
        /\ ~amp_called => fs.amp_ok = DefaultAnswers.amp_ok
        /\ ~lscpu_called => fs.per_core = DefaultAnswers.per_core
        /\ ~(on_disk /\ ctx.manifest.has_modelFile)
              => fs.model_def_is_file = DefaultAnswers.model_def_is_file
        /\ ~in_def => fs.classes = DefaultAnswers.classes
        /\ ~loading => fs.mapping_file = DefaultAnswers.mapping_file

\* The calls that can be made on each host: a context and the answers it gets.
Calls ==
    {[host |-> c[1], ctx |-> c[2], fs |-> c[3]] :
        c \in {x \in Hosts \X Contexts \X Answers : Reads(x[1], x[2], x[3])}}

----------------------------------------------------------------------------
\* The state machine

\* __init__
Init ==
    /\ self = [model |-> NoModel, mapping |-> NoMapping, device |-> NoDevice,
               initialized |-> FALSE, manifest |-> NoManifest]
    /\ process = [KMP_AFFINITY |-> "unset", auto_mix_precision |-> FALSE]
    /\ host \in Hosts
    /\ last = [op |-> "__init__", ctx |-> DefaultContext, fs |-> DefaultAnswers, pre |-> self,
               error |-> "none", error_arg |-> <<>>, branch |-> "none",
               load_device |-> NoDevice, warning |-> FALSE]
    /\ failed = FALSE

Initialize ==
    \E call \in Calls :
        /\ call.host = host
        /\ LET ctx == call.ctx
               fs == call.fs
               out == initialize(self, process, host, ctx, fs)
           IN  /\ self' = out.self
               /\ process' = out.process
               /\ last' = [op |-> "initialize", ctx |-> ctx, fs |-> fs, pre |-> self,
                           error |-> out.error, error_arg |-> out.error_arg,
                           branch |-> out.branch, load_device |-> out.load_device,
                           warning |-> out.warning]
               /\ failed' = (failed \/ out.error # "none")
        /\ UNCHANGED host

\* The body of each abstract stage is `pass`: it returns None, whatever the
\* state of the handler, and touches nothing.
Stage(name) ==
    /\ last' = [op |-> name, ctx |-> DefaultContext, fs |-> DefaultAnswers, pre |-> self,
                error |-> "none", error_arg |-> <<>>, branch |-> "none",
                load_device |-> NoDevice, warning |-> FALSE]
    /\ UNCHANGED <<self, process, host, failed>>

Preprocess == Stage("preprocess")
Inference == Stage("inference")
Postprocess == Stage("postprocess")

Next == Initialize \/ Preprocess \/ Inference \/ Postprocess

Spec == Init /\ [][Next]_vars

----------------------------------------------------------------------------
\* Properties

InitCall == last.op = "initialize"
StageNames == {"preprocess", "inference", "postprocess"}

\* The call got past device resolution and found the artifact on disk.
PassedArtifactCheck ==
    /\ InitCall
    /\ ~ResolveDevice(host, last.ctx).raised
    /\ last.fs.artifact_is_file

\* The call got as far as 'Model file %s loaded successfully'.
ModelLoaded ==
    /\ PassedArtifactCheck
    /\ LoadModel(last.pre.model, MapLocation(host), last.ctx.manifest, last.fs).error = "none"

\* C1: an initialize call whose artifact is not a regular file raises
\* MissingArtifact, leaves the handler not Initialized and loads no model handle.
C1_MissingArtifactFails ==
    (InitCall /\ ~last.fs.artifact_is_file)
        => /\ last.error = "MissingArtifact"
           /\ ~self.initialized
           /\ self.model = last.pre.model

\* C2: a pipeline stage called on a handler that is not Initialized is rejected
\* with an 'uninitialized' error.
C2_StagesRejectUninitialized ==
    (last.op \in StageNames /\ ~last.pre.initialized) => last.error = "Uninitialized"

\* C3: Failed is terminal: once an initialize call on the instance has raised,
\* the instance is never Initialized.
C3_FailedIsTerminal == failed => ~self.initialized

\* C4: whenever the initialized flag is set, the model handle is non-empty, in
\* evaluation mode and resident on the device recorded in the device field.
C4_InitializedModelOnDevice ==
    self.initialized
        => /\ self.model.loaded
           /\ ~self.model.training
           /\ self.model.device = self.device

\* C5: with the artifact and the model-definition file on disk, exactly one
\* class makes initialize succeed (class instantiated, state dict loaded,
\* Initialized); zero or several make it raise AmbiguousModelDefinition carrying
\* all the candidates, the handler not Initialized.
C5_ExactlyOneModelClass ==
    (InitCall /\ last.fs.artifact_is_file /\ ModelDefIsFile(last.ctx.manifest, last.fs))
        => IF Len(last.fs.classes) = 1
           THEN /\ last.error = "none"
                /\ self.initialized
                /\ self.model.kind = "eager"
                /\ self.model.state_dict
           ELSE /\ last.error = "AmbiguousModelDefinition"
                /\ last.error_arg = last.fs.classes
                /\ ~self.initialized

\* C6: the device initialize records depends on accelerator availability and
\* gpu_id only: the cpu without an accelerator, the accelerator of index gpu_id
\* with one, an accelerator of some default index when gpu_id is absent.
C6_DeviceFromAcceleratorAndGpuId ==
    InitCall
        => IF ~host.cuda THEN self.device = CpuDevice
           ELSE IF last.ctx.gpu_id.has THEN self.device = CudaDevice(last.ctx.gpu_id.val)
           ELSE self.device.type = "cuda" /\ self.device.has_index

\* The probe of the cpu path failed at some point: the import, enabling mixed
\* precision, or reading the topology.
ProbeFailed ==
    /\ InitCall
    /\ ~host.cuda
    /\ \/ ~host.ipex
       \/ ~host.disable_mixed_precision /\ ~last.fs.amp_ok
       \/ Len(last.fs.per_core) > 0 /\ IntOf(last.fs.per_core[1]).raised

\* C7: on the cpu path a probe that fails at any point does not make initialize
\* fail and leaves the device the cpu resolved before it.
C7_FailedProbeKeepsDevice ==
    ProbeFailed
        => /\ last.error \in {"none", "MissingArtifact", "AmbiguousModelDefinition"}
           /\ self.device = CpuDevice

C9_BranchAndLoadDevice ==
    PassedArtifactCheck
        => /\ last.branch \in {"model_def", "self_contained"}
           /\ last.branch = "model_def"
                 <=> (last.ctx.manifest.has_modelFile /\ last.fs.model_def_is_file)
           /\ last.branch = "self_contained" => last.load_device = self.device

\* C10: an initialize call that raises at the artifact check or at the class
\* count leaves model, mapping and initialized as they were before the call.
C10_EarlyRaiseKeepsFields ==
    (InitCall /\ last.error \in {"MissingArtifact", "AmbiguousModelDefinition"})
        => /\ self.model = last.pre.model
           /\ self.mapping = last.pre.mapping
           /\ self.initialized = last.pre.initialized

\* An initialized handler, with a mapping, on which a later call raises at the
\* class count.
C10_Witness ==
    /\ InitCall
    /\ last.error = "AmbiguousModelDefinition"
    /\ last.pre.initialized
    /\ last.pre.mapping.present
    /\ self.model.loaded

====
